---------------------------- MODULE Spec2Model ----------------------------
(***************************************************************************)
(* A model of generate-logo-data.py: the filename parser, the directory    *)
(* scanner, the history extractor (recent additions, contributors and the  *)
(* local-history fallback), the serializer's sort and the orchestrator.    *)
(*                                                                         *)
(* Python strings are sequences of one-character strings, so that          *)
(* substring tests, regular expressions, splitting, case conversion and    *)
(* code-point comparison are computed as the code computes them.           *)
(***************************************************************************)
EXTENDS Integers, Sequences, FiniteSets, TLC

VARIABLES
  pc,                \* where the running operation stands
  os_sep,            \* the platform's path separator (os.sep)
  path,              \* parse_logo_path: the parts of the relative path
  logo_info,         \* parse_logo_path: the returned record, or None
  tree,              \* the files below the repository root, each as its parts
  pending,           \* os.walk: the directories still to visit, next one first
  logos,             \* scan_logos: the records collected so far
  logo_id,           \* scan_logos: the next id
  git_log,           \* outcome of the `git log --diff-filter=A` subprocess
  on_disk,           \* the paths for which (repo_root / file_path).exists()
  limit,             \* get_recent_additions: the limit argument
  recent_additions,  \* the list get_recent_additions returned
  remote,            \* outcome of `git config --get remote.origin.url`
  api,               \* outcome of the request to the contributors endpoint
  author_log,        \* outcome of the `git log --pretty=format:%an|%ae` subprocess
  contributors,      \* the list get_contributors returned
  artifact           \* what generate_logo_data_js wrote, or None

vars ==
  <<pc, os_sep, path, logo_info, tree, pending, logos, logo_id, git_log, on_disk,
    limit, recent_additions, remote, api, author_log, contributors, artifact>>

(***************************************************************************)
(* Characters                                                              *)
(***************************************************************************)

\* U+2013 EN DASH, the one non-ASCII character the code names (line 82).
EnDash == "endash"

LowerLetters ==
  <<"a","b","c","d","e","f","g","h","i","j","k","l","m",
    "n","o","p","q","r","s","t","u","v","w","x","y","z">>

UpperLetters ==
  <<"A","B","C","D","E","F","G","H","I","J","K","L","M",
    "N","O","P","Q","R","S","T","U","V","W","X","Y","Z">>

Digits == {"0","1","2","3","4","5","6","7","8","9"}

Range(f) == { f[i] : i \in DOMAIN f }

\* The characters of the model in ascending code-point order.
CodePoints ==
  <<"\t", " ", "+", "-", ".", "/">>
  \o <<"0","1","2","3","4","5","6","7","8","9">>
  \o <<":", "@">> \o UpperLetters \o <<"[", "\\", "]", "_">>
  \o LowerLetters \o <<"|", EnDash>>

Ord == [ c \in Range(CodePoints) |->
           CHOOSE i \in DOMAIN CodePoints : CodePoints[i] = c ]

LowerOf == [ c \in Range(UpperLetters) |->
               LowerLetters[CHOOSE i \in 1..26 : UpperLetters[i] = c] ]

UpperOf == [ c \in Range(LowerLetters) |->
               UpperLetters[CHOOSE i \in 1..26 : LowerLetters[i] = c] ]

\* str.lower() and str.upper() on one character
Lower(c) == IF c \in DOMAIN LowerOf THEN LowerOf[c] ELSE c

Upper(c) == IF c \in DOMAIN UpperOf THEN UpperOf[c] ELSE c

\* \d
IsDigit(c) == c \in Digits

\* \w
IsWord(c) == c \in Digits \cup Range(LowerLetters) \cup Range(UpperLetters) \cup {"_"}

\* \s
IsSpace(c) == c \in {" ", "\t"}

(***************************************************************************)
(* Python string operations                                                *)
(***************************************************************************)

LowerStr(s) == [ i \in 1..Len(s) |-> Lower(s[i]) ]

UpperStr(s) == [ i \in 1..Len(s) |-> Upper(s[i]) ]

\* s[i:] with a 1-based i
From(s, i) == SubSeq(s, i, Len(s))

\* sub occurs in s at position i
OccursAt(sub, s, i) ==
  /\ i >= 1
  /\ i + Len(sub) - 1 <= Len(s)
  /\ SubSeq(s, i, i + Len(sub) - 1) = sub

\* sub in s
Contains(sub, s) == \E i \in 1..(Len(s) + 1) : OccursAt(sub, s, i)

\* s.startswith(sub)
StartsWith(s, sub) == OccursAt(sub, s, 1)

\* s.find(c) + 1 for a character c: 0 when absent
Find(s, c) ==
  IF \E i \in 1..Len(s) : s[i] = c
  THEN CHOOSE i \in 1..Len(s) : s[i] = c /\ \A j \in 1..(i - 1) : s[j] # c
  ELSE 0

\* s.rfind(c) + 1 for a character c: 0 when absent
RFind(s, c) ==
  IF \E i \in 1..Len(s) : s[i] = c
  THEN CHOOSE i \in 1..Len(s) : s[i] = c /\ \A j \in (i + 1)..Len(s) : s[j] # c
  ELSE 0

\* s.split(c) for a character c
RECURSIVE Split(_, _)
Split(s, c) ==
  LET i == Find(s, c)
  IN  IF i = 0 THEN <<s>>
      ELSE <<SubSeq(s, 1, i - 1)>> \o Split(From(s, i + 1), c)

\* sep.join(words)
RECURSIVE Join(_, _)
Join(words, sep) ==
  IF Len(words) = 0 THEN <<>>
  ELSE IF Len(words) = 1 THEN words[1]
  ELSE words[1] \o sep \o Join(Tail(words), sep)

\* s.replace(a, b) for characters a and b
Replace(s, a, b) == [ i \in 1..Len(s) |-> IF s[i] = a THEN b ELSE s[i] ]

\* s.strip()
Strip(s) ==
  IF \A i \in 1..Len(s) : IsSpace(s[i]) THEN <<>>
  ELSE LET a == CHOOSE i \in 1..Len(s) :
                  ~IsSpace(s[i]) /\ \A j \in 1..(i - 1) : IsSpace(s[j])
           b == CHOOSE i \in 1..Len(s) :
                  ~IsSpace(s[i]) /\ \A j \in (i + 1)..Len(s) : IsSpace(s[j])
       IN  SubSeq(s, a, b)

\* re.sub(r'\s+', ' ', s)
RECURSIVE CollapseFrom(_, _)
CollapseFrom(s, i) ==
  IF i > Len(s) THEN <<>>
  ELSE IF IsSpace(s[i])
       THEN (IF i > 1 /\ IsSpace(s[i - 1]) THEN <<>> ELSE <<" ">>)
            \o CollapseFrom(s, i + 1)
       ELSE <<s[i]>> \o CollapseFrom(s, i + 1)

CollapseSpaces(s) == CollapseFrom(s, 1)

\* s.split(): the maximal runs of non-whitespace
SplitWords(s) ==
  SelectSeq(Split([ i \in 1..Len(s) |-> IF IsSpace(s[i]) THEN " " ELSE s[i] ], " "),
            LAMBDA w : w # <<>>)

\* word.capitalize()
Capitalize(w) ==
  [ i \in 1..Len(w) |-> IF i = 1 THEN Upper(w[i]) ELSE Lower(w[i]) ]

\* a < b for str: the first differing code point decides, a proper prefix is less
StrLess(a, b) ==
  \E i \in 1..(Len(b)) :
     /\ i <= Len(a) + 1
     /\ SubSeq(a, 1, i - 1) = SubSeq(b, 1, i - 1)
     /\ (i = Len(a) + 1 \/ Ord[a[i]] < Ord[b[i]])

\* the last index of the run of digits that starts at i (i - 1 when s[i] is none)
DigitRunEnd(s, i) ==
  CHOOSE j \in (i - 1)..Len(s) :
     /\ \A k \in i..j : IsDigit(s[k])
     /\ (j = Len(s) \/ ~IsDigit(s[j + 1]))

\* Optional values: None, or a one-element tuple
None == <<>>

Some(v) == <<v>>

(***************************************************************************)
(* Configuration (lines 21-25)                                             *)
(***************************************************************************)

LOGO_EXTENSIONS == { <<".","p","n","g">>, <<".","s","v","g">>, <<".","j","p","g">>, <<".","j","p","e","g">>, <<".","i","c","o">>, <<".","p","d","f">> }

EXCLUDE_FOLDERS == { <<"d","o","c","s">>, <<".","g","i","t">>, <<"n","o","d","e","_","m","o","d","u","l","e","s">>, <<".","g","i","t","h","u","b">> }

(***************************************************************************)
(* pathlib                                                                 *)
(***************************************************************************)

\* PurePath.suffix: from the last dot, unless it leads or ends the name
Suffix(filename) ==
  LET i == RFind(filename, ".")
  IN  IF 1 < i /\ i < Len(filename) THEN From(filename, i) ELSE <<>>

\* PurePath.stem
Stem(filename) ==
  LET i == RFind(filename, ".")
  IN  IF 1 < i /\ i < Len(filename) THEN SubSeq(filename, 1, i - 1) ELSE filename

\* str(rel_path): the parts joined by the platform's separator
PathStr(parts, sep) == Join(parts, <<sep>>)

(***************************************************************************)
(* Filename parser                                                         *)
(***************************************************************************)

\* get_file_format without .upper(): the extension as written
get_file_format_AsWritten(filename) ==
  LET ext == Suffix(filename)
  IN  IF ext # <<>> THEN Tail(ext) ELSE <<>>

\* lines 27-30: Path(filename).suffix.upper().lstrip('.')
get_file_format(filename) ==
  LET ext == UpperStr(Suffix(filename))
  IN  IF ext # <<>> THEN Tail(ext) ELSE <<>>

\* s matches \d+x\d+ from i to its end
IsSizeToEnd(s, i) ==
  LET j == DigitRunEnd(s, i)
  IN  /\ j >= i
      /\ j + 2 <= Len(s)
      /\ s[j + 1] = "x"
      /\ DigitRunEnd(s, j + 2) = Len(s)

\* re.sub(r'[-_]\d+x\d+$', '', name)
StripSizeSpec(name) ==
  IF \E i \in 1..Len(name) : name[i] \in {"-", "_"} /\ IsSizeToEnd(name, i + 1)
  THEN LET i == CHOOSE i \in 1..Len(name) :
                   name[i] \in {"-", "_"} /\ IsSizeToEnd(name, i + 1)
       IN  SubSeq(name, 1, i - 1)
  ELSE name

\* re.sub(r'^\d+-icon-service-', '', name)
StripIconPrefix(name) ==
  LET j == DigitRunEnd(name, 1)
  IN  IF j >= 1 /\ OccursAt(<<"-","i","c","o","n","-","s","e","r","v","i","c","e","-">>, name, j + 1)
      THEN From(name, j + 1 + Len(<<"-","i","c","o","n","-","s","e","r","v","i","c","e","-">>))
      ELSE name

\* re.sub(r'^[0-9\-]+', '', name)
StripLeadingNumbers(name) ==
  LET lead == CHOOSE j \in 0..Len(name) :
                 /\ \A k \in 1..j : name[k] \in Digits \cup {"-"}
                 /\ (j = Len(name) \/ name[j + 1] \notin Digits \cup {"-"})
  IN  From(name, lead + 1)

\* re.sub(r'[-_]scalable$', '', name, flags=re.IGNORECASE)
StripScalable(name) ==
  LET n == Len(name) - Len(<<"s","c","a","l","a","b","l","e">>)
  IN  IF /\ n >= 1
         /\ name[n] \in {"-", "_"}
         /\ LowerStr(From(name, n + 1)) = <<"s","c","a","l","a","b","l","e">>
      THEN SubSeq(name, 1, n - 1)
      ELSE name

KeptWords == { <<"3","6","5">>, <<"a","n","d">>, <<"o","r">>, <<"t","h","e">>, <<"o","f">>, <<"f","o","r">> }

CapitalizeWords(name) ==
  LET words == SplitWords(name)
  IN  Join([ i \in 1..Len(words) |->
               IF LowerStr(words[i]) \notin KeptWords
               THEN Capitalize(words[i]) ELSE words[i] ],
           <<" ">>)

\* lines 49-60
CleanName(filename) ==
  LET n1 == Stem(filename)
      n2 == StripSizeSpec(n1)
      n3 == StripIconPrefix(n2)
      n4 == StripLeadingNumbers(n3)
      n5 == StripScalable(n4)
      n6 == Replace(Replace(n5, "_", " "), "-", " ")
      n7 == Strip(CollapseSpaces(n6))
  IN  CapitalizeWords(n7)

\* lines 63-74: the first match of the elif chain decides
StyleTable ==
  << <<<<"m","o","n","o","c","h","r","o","m","e","-","n","e","g","a","t","i","v","e">>, "monochrome-negative">>,
     <<<<"m","o","n","o","c","h","r","o","m","a","t","i","c","-","n","e","g","a","t","i","v","e">>, "monochrome-negative">>,
     <<<<"m","o","n","o","c","h","r","o","m","e","-","p","o","s","i","t","i","v","e">>, "monochrome-positive">>,
     <<<<"m","o","n","o","c","h","r","o","m","a","t","i","c","-","p","o","s","i","t","i","v","e">>, "monochrome-positive">>,
     <<<<"m","o","n","o","c","h","r","o","m","e">>, "monochrome">>,
     <<<<"m","o","n","o","c","h","r","o","m","a","t","i","c">>, "monochrome">>,
     <<<<"n","e","g","a","t","i","v","e">>, "negative">>,
     <<<<"p","o","s","i","t","i","v","e">>, "positive">> >>

DetectStyle(path_str) ==
  IF \E k \in DOMAIN StyleTable : Contains(StyleTable[k][1], path_str)
  THEN LET k == CHOOSE k \in DOMAIN StyleTable :
                   /\ Contains(StyleTable[k][1], path_str)
                   /\ \A j \in 1..(k - 1) : ~Contains(StyleTable[j][1], path_str)
       IN  StyleTable[k][2]
  ELSE "full-color"

\* the year-range pattern without its two \b anchors
YearRangeAt_Unanchored(s, i) ==
  /\ i + 8 <= Len(s)
  /\ SubSeq(s, i, i + 1) \in { <<"1","9">>, <<"2","0">> }
  /\ IsDigit(s[i + 2]) /\ IsDigit(s[i + 3])
  /\ s[i + 4] \in {"-", EnDash}
  /\ \A k \in (i + 5)..(i + 8) : IsDigit(s[k])

\* \b(19|20)\d{2}[-(en dash)]\d{4}\b matches s at position i
YearRangeAt(s, i) ==
  /\ i + 8 <= Len(s)
  /\ SubSeq(s, i, i + 1) \in { <<"1","9">>, <<"2","0">> }
  /\ IsDigit(s[i + 2]) /\ IsDigit(s[i + 3])
  /\ s[i + 4] \in {"-", EnDash}
  /\ \A k \in (i + 5)..(i + 8) : IsDigit(s[k])
  /\ (i = 1 \/ ~IsWord(s[i - 1]))
  /\ (i + 8 = Len(s) \/ ~IsWord(s[i + 9]))

\* re.search(r'\b(19|20)\d{2}[-(en dash)]\d{4}\b', path_str) is not None
YearMatch(path_str) == \E i \in 1..Len(path_str) : YearRangeAt(path_str, i)

\* lines 77-84
DetectYear(rel_str, path_str) ==
  IF Contains(<<"z","z","L","E","G","A","C","Y">>, rel_str) \/ Contains(<<"l","e","g","a","c","y">>, path_str)
  THEN "legacy"
  ELSE IF YearMatch(path_str) THEN "legacy" ELSE "current"

\* \d+x\d+ matches s from position i
SizeAt(s, i) ==
  LET j == DigitRunEnd(s, i)
  IN  j >= i /\ j + 2 <= Len(s) /\ s[j + 1] = "x" /\ IsDigit(s[j + 2])

\* lines 87-90: group 1 of the leftmost match of (\d+x\d+), else ''
DetectSize(filename) ==
  IF \E i \in 1..Len(filename) : SizeAt(filename, i)
  THEN LET i == CHOOSE i \in 1..Len(filename) :
                   SizeAt(filename, i) /\ \A k \in 1..(i - 1) : ~SizeAt(filename, k)
           j == DigitRunEnd(filename, i)
       IN  SubSeq(filename, i, DigitRunEnd(filename, j + 2))
  ELSE <<>>

\* line 43
Family(parts) == IF Len(parts) > 0 THEN parts[1] ELSE <<"O","t","h","e","r">>

\* line 39
InExcluded(parts) == \E excluded \in EXCLUDE_FOLDERS : excluded \in Range(parts)

\* parse_logo_path(path, repo_root), with parts = path.relative_to(repo_root).parts
\* and sep the platform's path separator
parse_logo_path(parts, sep) ==
  IF InExcluded(parts) THEN None
  ELSE LET filename == parts[Len(parts)]
           rel_str  == PathStr(parts, sep)
           path_str == LowerStr(rel_str)
       IN  Some([ name     |-> CleanName(filename),
                  family   |-> Family(parts),
                  filename |-> filename,
                  path     |-> Replace(rel_str, "\\", "/"),
                  style    |-> DetectStyle(path_str),
                  year     |-> DetectYear(rel_str, path_str),
                  size     |-> DetectSize(filename),
                  format   |-> get_file_format(filename) ])

(***************************************************************************)
(* The outside of the program: the file tree it walks, what git prints and *)
(* what the remote API answers. A subprocess or a request has an outcome:  *)
(* "ok" with its output, "fails" (a non-zero return code), "urlerror" or   *)
(* "raises" (any other exception).                                         *)
(***************************************************************************)

Trees(universe, n) == { t \in SUBSET universe : Cardinality(t) <= n }

\* %ai: the author's local time followed by the author's offset from UTC
DateText(day, hour, offset) ==
  <<"2","0","2","4","-","0","1","-">> \o day \o <<" ">> \o hour \o <<":","0","0",":","0","0"," ">> \o offset

\* what git prints for one commit: the format line, the added files, a blank line
CommitLines(sha, date, files) ==
  << sha \o <<"|">> \o date \o <<"|","A","l","|","a","l","@","x",".","i","o">> >>
  \o [ i \in DOMAIN files |-> <<"A","\t">> \o files[i] ]
  \o << <<>> >>

RECURSIVE LogLines(_, _)
LogLines(commits, n) ==
  IF commits = <<>> THEN <<>>
  ELSE CommitLines(<<"c", CodePoints[6 + n]>>, Head(commits)[1], Head(commits)[2])
       \o LogLines(Tail(commits), n + 1)

Remotes ==
  { [kind |-> "raises"], [kind |-> "fails"],
    [kind |-> "ok", stdout |-> <<"h","t","t","p","s",":","/","/","g","i","t","h","u","b",".","c","o","m","/","o","/","r",".","g","i","t">>],
    [kind |-> "ok", stdout |-> <<"h","t","t","p","s",":","/","/","g","i","t","l","a","b",".","c","o","m","/","o","/","r",".","g","i","t">>] }

ApiData ==
  << [type |-> "User", login |-> <<"a","l">>, contributions |-> 7],
     [type |-> "Bot", login |-> <<"c","i">>, contributions |-> 3],
     [type |-> "User", login |-> <<"d","e","p","[","b","o","t","]">>, contributions |-> 2] >>

Apis == { [kind |-> "urlerror"], [kind |-> "raises"], [kind |-> "ok", data |-> ApiData] }

(***************************************************************************)
(* The inputs of a run of main                                             *)
(***************************************************************************)

MaxMainFiles == 2

\* line 373: limit=50
RecentLimit == 50

MainUniverse == { <<<<"a">>, <<"b",".","p","n","g">>>>, <<<<"c",".","P","N","G">>>>, <<<<"d","o","c","s">>, <<"x",".","p","n","g">>>> }

MainTrees == Trees(MainUniverse, MaxMainFiles)

MainLog ==
  LogLines(<< <<DateText(<<"1","5">>, <<"1","0">>, <<"+","0","0","0","0">>), << <<"a","/","b",".","p","n","g">>, <<"g","o","n","e",".","p","n","g">> >> >>,
              <<DateText(<<"1","4">>, <<"0","9">>, <<"+","0","9","0","0">>), << <<"c",".","P","N","G">> >> >> >>, 1)

MainGitLogs ==
  { [kind |-> "raises"], [kind |-> "fails"], [kind |-> "ok", stdout |-> MainLog] }

MainAuthorLogs ==
  { [kind |-> "raises"], [kind |-> "fails"],
    [kind |-> "ok", stdout |-> << <<"A","l","|","a","l","@","u","s","e","r","s",".","n","o","r","e","p","l","y",".","g","i","t","h","u","b",".","c","o","m">>, <<"B","o","|","b","o","@","x",".","i","o">> >>] }

(***************************************************************************)
(* Directory scanner                                                       *)
(***************************************************************************)

\* all orders of the elements of a finite set
Orders(S) ==
  { q \in [1..Cardinality(S) -> S] : \A i, j \in DOMAIN q : i # j => q[i] # q[j] }

\* the files os.walk lists in directory d
FilesIn(t, d) ==
  { f[Len(f)] : f \in { g \in t : Len(g) = Len(d) + 1 /\ SubSeq(g, 1, Len(d)) = d } }

\* the subdirectories os.walk lists in directory d
DirsIn(t, d) ==
  { f[Len(d) + 1] : f \in { g \in t : Len(g) > Len(d) + 1 /\ SubSeq(g, 1, Len(d)) = d } }

\* lines 117-127: the loop over the files of one directory, in the listed order
\* line 369: main's scan_logos(repo_root) parses each file of main's tree; the
\* records of these files, evaluated once
MainParsed == [ f \in MainUniverse |-> parse_logo_path(f, "/") ]

\* line 122: logo_info = parse_logo_path(file_path, root_path)
ParsedFile(parts, s) ==
  IF s = "/" /\ parts \in DOMAIN MainParsed THEN MainParsed[parts]
  ELSE parse_logo_path(parts, s)

RECURSIVE ScanFiles(_, _, _, _, _)
ScanFiles(files, d, s, acc, id) ==
  IF files = <<>> THEN [logos |-> acc, logo_id |-> id]
  ELSE LET file == Head(files)
           info == ParsedFile(d \o <<file>>, s)
       IN  IF LowerStr(Suffix(file)) \in LOGO_EXTENSIONS /\ info # None
           THEN ScanFiles(Tail(files), d, s,
                          Append(acc, info[1] @@ [id |-> id]), id + 1)
           ELSE ScanFiles(Tail(files), d, s, acc, id)

\* line 113: dirs[:] = [d for d in dirs if d not in EXCLUDE_FOLDERS]
KeptDirs(dirs) == SelectSeq(dirs, LAMBDA d : d \notin EXCLUDE_FOLDERS)

\* lines 111-127: one iteration of the loop over os.walk(root_path); the
\* directory's entries come in whatever order the file system lists them
WalkDir ==
  /\ pc = "scan"
  /\ pending # <<>>
  /\ LET d == Head(pending)
     IN  \E files \in Orders(FilesIn(tree, d)), dirs \in Orders(DirsIn(tree, d)) :
            LET r    == ScanFiles(files, d, os_sep, logos, logo_id)
                kept == KeptDirs(dirs)
            IN  /\ logos' = r.logos
                /\ logo_id' = r.logo_id
                /\ pending' = [ i \in 1..Len(kept) |-> d \o <<kept[i]>> ]
                                 \o Tail(pending)
  /\ UNCHANGED <<pc, os_sep, path, logo_info, tree, git_log, on_disk, limit,
                 recent_additions, remote, api, author_log, contributors, artifact>>

\* line 129: return logos
ScanReturn ==
  /\ pc = "scan"
  /\ pending = <<>>
  /\ pc' = "recent"
  /\ UNCHANGED <<os_sep, path, logo_info, tree, pending, logos, logo_id, git_log,
                 on_disk, limit, recent_additions, remote, api, author_log,
                 contributors, artifact>>

(***************************************************************************)
(* History extractor: recent additions                                     *)
(***************************************************************************)

\* Path(file_path).parts of a relative path
PathParts(file_path, s) ==
  LET text == IF s = "\\" THEN Replace(file_path, "\\", "/") ELSE file_path
  IN  SelectSeq(Split(text, "/"), LAMBDA w : w # <<>> /\ w # <<".">>)

\* Path(file_path).suffix
PathSuffix(file_path, s) ==
  LET parts == PathParts(file_path, s)
  IN  IF parts = <<>> THEN <<>> ELSE Suffix(parts[Len(parts)])

\* lines 176-177
IsLogoFile(file_path, s) ==
  /\ LowerStr(PathSuffix(file_path, s)) \in LOGO_EXTENSIONS
  /\ ~InExcluded(PathParts(file_path, s))

\* lines 159-187: the loop over the lines of the log; current is the commit
\* the last commit line named, acc the entries collected so far
RECURSIVE RecentLoop(_, _, _, _, _)
RecentLoop(lines, current, acc, disk, s) ==
  IF lines = <<>> THEN acc
  ELSE LET line  == Strip(Head(lines))
           parts == Split(line, "|")
       IN  IF Contains(<<"|">>, line) /\ Len(parts) = 4
           THEN RecentLoop(Tail(lines),
                           Some([sha |-> parts[1], date |-> parts[2],
                                 author |-> parts[3], email |-> parts[4]]),
                           acc, disk, s)
           ELSE IF StartsWith(line, <<"A","\t">>) /\ current # None
           THEN LET file_path == Strip(From(line, 3))
                IN  IF IsLogoFile(file_path, s) /\ file_path \in disk
                    THEN RecentLoop(Tail(lines), current,
                                    Append(acc, [path   |-> file_path,
                                                 date   |-> current[1].date,
                                                 author |-> current[1].author,
                                                 sha    |-> current[1].sha]),
                                    disk, s)
                    ELSE RecentLoop(Tail(lines), current, acc, disk, s)
           ELSE RecentLoop(Tail(lines), current, acc, disk, s)

\* line 191: key=lambda x: x['date']
DateKey(x) == x.date

\* x placed behind every element of the descending list l whose key is not less
RECURSIVE InsertDescending(_, _)
InsertDescending(x, l) ==
  IF l = <<>> THEN <<x>>
  ELSE IF StrLess(DateKey(Head(l)), DateKey(x)) THEN <<x>> \o l
  ELSE <<Head(l)>> \o InsertDescending(x, Tail(l))

\* line 191: recent_files.sort(key=..., reverse=True): descending and stable
RECURSIVE SortByDateDescending(_)
SortByDateDescending(l) ==
  IF l = <<>> THEN <<>>
  ELSE InsertDescending(l[Len(l)], SortByDateDescending(SubSeq(l, 1, Len(l) - 1)))

\* l[:n]
Take(l, n) == SubSeq(l, 1, IF n < Len(l) THEN n ELSE Len(l))

\* get_recent_additions without the try and except of lines 135 and 193: an
\* exception of the subprocess leaves the function
get_recent_additions_Uncaught(g, disk, lim, s) ==
  IF g.kind = "raises" THEN [raised |-> TRUE, value |-> <<>>]
  ELSE IF g.kind = "fails" THEN [raised |-> FALSE, value |-> <<>>]
  ELSE [raised |-> FALSE,
        value  |-> Take(SortByDateDescending(
                          RecentLoop(g.stdout, None, <<>>, disk, s)), lim)]

\* get_recent_additions(repo_root, limit): g is what the subprocess did (it
\* raised, exited non-zero, or printed the lines g.stdout); an exception is
\* caught at line 193 and never leaves the function
get_recent_additions(g, disk, lim, s) ==
  IF g.kind = "raises" THEN [raised |-> FALSE, value |-> <<>>]
  ELSE IF g.kind = "fails" THEN [raised |-> FALSE, value |-> <<>>]
  ELSE [raised |-> FALSE,
        value  |-> Take(SortByDateDescending(
                          RecentLoop(g.stdout, None, <<>>, disk, s)), lim)]

\* line 373: main's get_recent_additions(REPO_ROOT, limit=50), evaluated once
\* for each tree and each outcome of git log that a run of main starts from
MainRecent ==
  [ x \in { <<g, { PathStr(f, "/") : f \in t }>> : g \in MainGitLogs, t \in MainTrees }
      |-> get_recent_additions(x[1], x[2], RecentLimit, "/") ]

\* the call of get_recent_additions
RecentAdditions(g, disk, lim, s) ==
  IF lim = RecentLimit /\ s = "/" /\ <<g, disk>> \in DOMAIN MainRecent
  THEN MainRecent[<<g, disk>>]
  ELSE get_recent_additions(g, disk, lim, s)

\* line 373
GetRecentAdditions ==
  /\ pc = "recent"
  /\ LET r == RecentAdditions(git_log, on_disk, limit, os_sep)
     IN  IF r.raised
         THEN pc' = "crashed" /\ UNCHANGED recent_additions
         ELSE pc' = "contributors" /\ recent_additions' = r.value
  /\ UNCHANGED <<os_sep, path, logo_info, tree, pending, logos, logo_id, git_log,
                 on_disk, limit, remote, api, author_log, contributors, artifact>>

(***************************************************************************)
(* History extractor: contributors from local history (the fallback)       *)
(***************************************************************************)

\* lines 296-303: the username a GitHub noreply address carries, else None
GithubUsername(email) ==
  IF Contains(<<"u","s","e","r","s",".","n","o","r","e","p","l","y",".","g","i","t","h","u","b",".","c","o","m">>, email)
  THEN LET email_parts == Split(email, "@")[1]
       IN  IF Contains(<<"+">>, email_parts)
           THEN Some(Split(email_parts, "+")[2])
           ELSE Some(email_parts)
  ELSE None

\* line 308: if github_username
Truthy(u) == u # None /\ u[1] # <<>>

\* line 292
IsBot(name, email) ==
  Contains(<<"b","o","t">>, LowerStr(email)) \/ Contains(<<"b","o","t">>, LowerStr(name))

\* lines 284-323: the loop over the lines of the log. The two dicts keep their
\* insertion order: by_username is the list of its values, each value naming
\* its key; by_name is the list of its values and name_keys the list of
\* their keys
RECURSIVE ContributorLoop(_, _, _, _, _)
ContributorLoop(lines, by_username, by_name, name_keys, names_with_github_username) ==
  IF lines = <<>> THEN by_username \o by_name
  ELSE LET line == Strip(Head(lines))
           rest == Tail(lines)
       IN  IF ~Contains(<<"|">>, line)
           THEN ContributorLoop(rest, by_username, by_name, name_keys,
                                names_with_github_username)
           ELSE
           LET parts == Split(line, "|")
               name == parts[1]
               email == parts[2]
               github_username == GithubUsername(email)
               name_key == LowerStr(name)
           IN  IF IsBot(name, email)
               THEN ContributorLoop(rest, by_username, by_name, name_keys,
                                    names_with_github_username)
               ELSE IF Truthy(github_username)
               THEN ContributorLoop(
                      rest,
                      IF \A i \in DOMAIN by_username :
                            by_username[i].github_username # github_username
                      THEN Append(by_username,
                                  [name |-> name, github_username |-> github_username])
                      ELSE by_username,
                      by_name, name_keys,
                      names_with_github_username \cup {name_key})
               ELSE IF /\ name_key \notin names_with_github_username
                       /\ name_key \notin Range(name_keys)
               THEN ContributorLoop(
                      rest, by_username,
                      Append(by_name, [name |-> name, github_username |-> None]),
                      Append(name_keys, name_key),
                      names_with_github_username)
               ELSE ContributorLoop(rest, by_username, by_name, name_keys,
                                    names_with_github_username)

\* get_contributors_from_git(repo_root): h is what the subprocess did; an
\* exception is caught at line 329 and never leaves the function
get_contributors_from_git(h) ==
  IF h.kind = "raises" THEN [raised |-> FALSE, value |-> <<>>]
  ELSE IF h.kind = "fails" THEN [raised |-> FALSE, value |-> <<>>]
  ELSE [raised |-> FALSE, value |-> ContributorLoop(h.stdout, <<>>, <<>>, <<>>, {})]

(***************************************************************************)
(* History extractor: contributors from the remote API (the primary)       *)
(***************************************************************************)

\* github\.com[:/]([^/]+)/([^/\s]+?)(?:\.git)?$ matches url from position i
RemoteMatchAt(url, i) ==
  /\ OccursAt(<<"g","i","t","h","u","b",".","c","o","m">>, url, i)
  /\ i + 10 <= Len(url)
  /\ url[i + 10] \in {":", "/"}
  /\ LET rest == From(url, i + 11)
         k == Find(rest, "/")
     IN  /\ k > 1
         /\ k < Len(rest)
         /\ \A j \in (k + 1)..Len(rest) : rest[j] # "/" /\ ~IsSpace(rest[j])

\* line 215: re.search(...): the groups (owner, repo) of the leftmost match
ParseRemote(url) ==
  IF \E i \in 1..Len(url) : RemoteMatchAt(url, i)
  THEN LET i == CHOOSE i \in 1..Len(url) :
                   RemoteMatchAt(url, i) /\ \A j \in 1..(i - 1) : ~RemoteMatchAt(url, j)
           rest == From(url, i + 11)
           k == Find(rest, "/")
           full == From(rest, k + 1)
           n == Len(full) - Len(<<".","g","i","t">>)
       IN  Some([owner |-> SubSeq(rest, 1, k - 1),
                 repo  |-> IF n >= 1 /\ From(full, n + 1) = <<".","g","i","t">>
                           THEN SubSeq(full, 1, n) ELSE full])
  ELSE None

\* lines 234-251: the loop over the decoded response
FromApi(data) ==
  LET kept == SelectSeq(data, LAMBDA c : c.type # "Bot" /\ ~Contains(<<"[","b","o","t","]">>, c.login))
  IN  [ i \in DOMAIN kept |->
          [name |-> kept[i].login, github_username |-> Some(kept[i].login),
           contributions |-> kept[i].contributions] ]

\* get_contributors whose handler of URLError (lines 255-258) returns an empty
\* list instead of calling get_contributors_from_git
get_contributors_NoFallbackOnURLError(r, a, h) ==
  IF r.kind = "raises" THEN get_contributors_from_git(h)
  ELSE IF r.kind = "fails" THEN [raised |-> FALSE, value |-> <<>>]
  ELSE IF ParseRemote(Strip(r.stdout)) = None THEN [raised |-> FALSE, value |-> <<>>]
  ELSE IF a.kind = "urlerror" THEN [raised |-> FALSE, value |-> <<>>]
  ELSE IF a.kind = "raises" THEN get_contributors_from_git(h)
  ELSE [raised |-> FALSE, value |-> FromApi(a.data)]

\* get_contributors(repo_root): r is what `git config` did, a what the request
\* to the API did, h what the fallback's `git log` would do
get_contributors(r, a, h) ==
  IF r.kind = "raises" THEN get_contributors_from_git(h)
  ELSE IF r.kind = "fails" THEN [raised |-> FALSE, value |-> <<>>]
  ELSE IF ParseRemote(Strip(r.stdout)) = None THEN [raised |-> FALSE, value |-> <<>>]
  ELSE IF a.kind = "urlerror" THEN get_contributors_from_git(h)
  ELSE IF a.kind = "raises" THEN get_contributors_from_git(h)
  ELSE [raised |-> FALSE, value |-> FromApi(a.data)]

\* line 377: main's get_contributors(REPO_ROOT), evaluated once for each
\* combination of outcomes that a run of main starts from
MainContributors ==
  [ x \in { <<r, a, h>> : r \in Remotes, a \in Apis, h \in MainAuthorLogs }
      |-> get_contributors(x[1], x[2], x[3]) ]

\* the call of get_contributors
Contributors(r, a, h) ==
  IF <<r, a, h>> \in DOMAIN MainContributors THEN MainContributors[<<r, a, h>>]
  ELSE get_contributors(r, a, h)

\* line 377
GetContributors ==
  /\ pc = "contributors"
  /\ LET r == Contributors(remote, api, author_log)
     IN  IF r.raised
         THEN pc' = "crashed" /\ UNCHANGED contributors
         ELSE pc' = "generate" /\ contributors' = r.value
  /\ UNCHANGED <<os_sep, path, logo_info, tree, pending, logos, logo_id, git_log,
                 on_disk, limit, recent_additions, remote, api, author_log, artifact>>

(***************************************************************************)
(* Serializer                                                              *)
(***************************************************************************)

\* a < b for tuples of str: the first differing component decides
TupleLess(a, b) ==
  \E i \in 1..Len(a) :
     /\ \A j \in 1..(i - 1) : a[j] = b[j]
     /\ StrLess(a[i], b[i])

\* the sort key without its last component
SortKey_WithoutPath(x) == <<x.family, x.name>>

\* line 338: key=lambda x: (x['family'], x['name'], x['path'])
SortKey(x) == <<x.family, x.name, x.path>>

\* x placed behind every element of the sorted list s whose key is not greater
RECURSIVE InsertSorted(_, _)
InsertSorted(x, s) ==
  IF s = <<>> THEN <<x>>
  ELSE IF TupleLess(SortKey(x), SortKey(Head(s))) THEN <<x>> \o s
  ELSE <<Head(s)>> \o InsertSorted(x, Tail(s))

\* sorted(logos, key=...): ascending and stable
RECURSIVE SortLogos(_)
SortLogos(l) ==
  IF l = <<>> THEN <<>>
  ELSE InsertSorted(l[Len(l)], SortLogos(SubSeq(l, 1, Len(l) - 1)))

\* lines 341-361: the three assignments of the written file, in their order
generate_logo_data_js(ls, recent, contribs) ==
  << [block |-> "logoData", value |-> SortLogos(ls)],
     [block |-> "recentAdditions", value |-> recent],
     [block |-> "contributors", value |-> contribs] >>

\* line 381
Generate ==
  /\ pc = "generate"
  /\ artifact' = Some(generate_logo_data_js(logos, recent_additions, contributors))
  /\ pc' = "done"
  /\ UNCHANGED <<os_sep, path, logo_info, tree, pending, logos, logo_id, git_log,
                 on_disk, limit, recent_additions, remote, api, author_log,
                 contributors>>

(***************************************************************************)
(* Specification of the parser: one call of parse_logo_path                *)
(***************************************************************************)

\* all strings over chars of length at most n
StringsUpTo(chars, n) == UNION { [1..k -> chars] : k \in 0..n }

MaxNameLen == 3

MaxPad == 1

NameChars == {"a", "x", "1", "_", "."}

PadChars == {"_", "v", " ", "7"}

\* <name>_256x256.png for every non-empty name
SizeInputs ==
  { <<<<"A","z","u","r","e">>, name \o <<"_","2","5","6","x","2","5","6",".","p","n","g">>>> :
      name \in StringsUpTo(NameChars, MaxNameLen) \ {<<>>} }

\* directory names around a would-be year range
RangeSegments ==
  { pre \o y1 \o dash \o y2 \o post :
      pre \in StringsUpTo(PadChars, MaxPad),
      y1 \in { <<"2","0","1","9">>, <<"1","9","9","9">>, <<"1","8","2","3">> },
      dash \in { <<"-">>, <<EnDash>>, <<"_">> },
      y2 \in { <<"2","0","2","3">>, <<"2","0","2">> },
      post \in StringsUpTo(PadChars, MaxPad) }

Markers == { <<"l","e","g","a","c","y">>, <<"L","e","g","a","c","y">>, <<"L","E","G","A","C","Y">>, <<"z","z","L","E","G","A","C","Y">>, <<"z","z","L","E","G","A","C">> }

YearInputs ==
  { <<seg, <<"x",".","p","n","g">>>> : seg \in RangeSegments }
  \cup { <<<<"A","z","u","r","e">>, m, <<"S","e","a","r","c","h",".","s","v","g">>>> : m \in Markers }
  \cup { <<<<"A","z","u","r","e">>, <<"o","l","d","-">> \o m \o <<".","s","v","g">>>> : m \in Markers }
  \cup { <<<<"A","z","u","r","e">>, <<"z","z","L","E","G","A","C","Y">>, <<"0","2","6","8","1","-","i","c","o","n","-","s","e","r","v","i","c","e","-","C","o","g","n","i","t","i","v","e","-","S","e","a","r","c","h",".","s","v","g">>>>,
          <<<<"A","z","u","r","e">>, <<"C","o","g","n","i","t","i","v","e","-","S","e","a","r","c","h",".","s","v","g">>>>,
          <<<<"A","z","u","r","e">>, <<"A","I">>, <<"2","5","6","x","2","5","6">>, <<"0","2","6","8","1","-","i","c","o","n","-","s","e","r","v","i","c","e","-","C","o","g","n","i","t","i","v","e","-","S","e","a","r","c","h",".","s","v","g">>>> }

StyleTokens == { <<"M","o","n","o","c","h","r","o","m","e">>, <<"m","o","n","o","c","h","r","o","m","a","t","i","c">>, <<"N","e","g","a","t","i","v","e">>, <<"p","o","s","i","t","i","v","e">>, <<"L","o","g","o","s">> }

StyleInputs ==
  { <<t1 \o j \o t2, <<"x",".","p","n","g">>>> :
      t1 \in StyleTokens, t2 \in StyleTokens, j \in { <<"-">>, <<"_">>, <<" ">> } }
  \cup { <<t1, t2, <<"x",".","p","n","g">>>> : t1 \in StyleTokens, t2 \in StyleTokens }
  \cup { <<<<"A","z","u","r","e">>, t1 \o <<"-">> \o t2 \o <<".","P","N","G">>>> :
           t1 \in StyleTokens, t2 \in StyleTokens }

RootInputs ==
  { <<<<"x",".","p","n","g">>>>, <<<<"l","o","g","o","_","2","5","6","x","2","5","6",".","p","n","g">>>>, <<<<"m","o","n","o","c","h","r","o","m","e","-","n","e","g","a","t","i","v","e",".","s","v","g">>>>,
    <<<<"a","\\","b",".","p","n","g">>>>, <<<<"2","0","1","9","-","2","0","2","3",".","j","p","g">>>> }

ExcludedInputs ==
  { <<<<"d","o","c","s">>, <<"x",".","p","n","g">>>>, <<<<"A","z","u","r","e">>, <<".","g","i","t">>, <<"x",".","p","n","g">>>>,
    <<<<"A","z","u","r","e">>, <<"d","o","c","s","x">>, <<"x",".","p","n","g">>>>, <<<<"n","o","d","e","_","m","o","d","u","l","e","s">>, <<"a">>, <<"x",".","p","n","g">>>> }

ParseInputs ==
  SizeInputs \cup YearInputs \cup StyleInputs \cup RootInputs \cup ExcludedInputs

\* a file name holds no separator of its platform
ValidParts(parts, s) ==
  \A i \in DOMAIN parts :
     /\ ~Contains(<<"/">>, parts[i])
     /\ s = "\\" => ~Contains(<<"\\">>, parts[i])

NoParse == path = <<>> /\ logo_info = None

NoHistory ==
  /\ git_log = None /\ on_disk = {} /\ limit = 0 /\ recent_additions = <<>>
  /\ remote = None /\ api = None /\ author_log = None /\ contributors = <<>>
  /\ artifact = None

\* the scanner's variables while another operation is checked alone
NoScan == tree = {} /\ pending = <<>> /\ logos = <<>> /\ logo_id = 0

InitParse ==
  /\ pc = "parse"
  /\ \/ os_sep = "/" /\ path \in ParseInputs
     \/ os_sep = "\\" /\ path \in StyleInputs \cup RootInputs \cup ExcludedInputs
  /\ ValidParts(path, os_sep)
  /\ logo_info = None
  /\ NoScan
  /\ NoHistory

ParsePath ==
  /\ pc = "parse"
  /\ logo_info' = parse_logo_path(path, os_sep)
  /\ pc' = "parsed"
  /\ UNCHANGED <<os_sep, path, tree, pending, logos, logo_id, git_log, on_disk, limit,
                 recent_additions, remote, api, author_log, contributors, artifact>>

NextParse == ParsePath

SpecParse == InitParse /\ [][NextParse]_vars

(***************************************************************************)
(* Properties of the parser                                                *)
(***************************************************************************)

Parsed == pc = "parsed" /\ logo_info # None

\* the record parse_logo_path returned
Info == logo_info[1]

FileName == path[Len(path)]

RelLower == LowerStr(PathStr(path, os_sep))

\* C7: every path whose lower-cased text holds both "monochrome" and
\* "negative", adjacent or not, is given the style monochrome-negative.
C7_BothTokensMonochromeNegative ==
  (Parsed /\ Contains(<<"m","o","n","o","c","h","r","o","m","e">>, RelLower) /\ Contains(<<"n","e","g","a","t","i","v","e">>, RelLower))
    => Info.style = "monochrome-negative"

\* the file name is <name>_256x256.png with a non-empty name
HasSizeSuffix ==
  /\ Len(FileName) > Len(<<"_","2","5","6","x","2","5","6",".","p","n","g">>)
  /\ From(FileName, Len(FileName) - Len(<<"_","2","5","6","x","2","5","6",".","p","n","g">>) + 1) = <<"_","2","5","6","x","2","5","6",".","p","n","g">>

NamePart == SubSeq(FileName, 1, Len(FileName) - Len(<<"_","2","5","6","x","2","5","6",".","p","n","g">>))

\* a digit, an x and a digit in a row
HasSizeRun(s) ==
  \E i \in 1..(Len(s) - 2) : IsDigit(s[i]) /\ s[i + 1] = "x" /\ IsDigit(s[i + 2])

\* C8 as stated: every file name <name>_256x256.png with a non-empty name,
\* whatever the name holds, gets size 256x256 and format PNG.
C8_SizeOfEveryName ==
  (Parsed /\ HasSizeSuffix) => (Info.size = <<"2","5","6","x","2","5","6">> /\ Info.format = <<"P","N","G">>)

\* C8 amended: every file name <name>_256x256.png with a non-empty name gets
\* format PNG, and gets size 256x256 when the name holds no digit-x-digit run
\* of its own (the size is the first such run of the file name).
C8_SizeWithoutEarlierRun ==
  (Parsed /\ HasSizeSuffix) =>
     /\ Info.format = <<"P","N","G">>
     /\ ~HasSizeRun(NamePart) => Info.size = <<"2","5","6","x","2","5","6">>

C8_Witness ==
  /\ Parsed /\ HasSizeSuffix
  /\ Contains(<<"x">>, NamePart) /\ Contains(<<"1">>, NamePart)
  /\ ~HasSizeRun(NamePart)
  /\ Info.size = <<"2","5","6","x","2","5","6">> /\ Info.format = <<"P","N","G">>

\* (19|20)dd, a hyphen or en dash, dddd at position i of s
RangeTextAt(s, i) ==
  /\ i + 8 <= Len(s)
  /\ s[i] \in {"1", "2"}
  /\ (s[i] = "1" => s[i + 1] = "9") /\ (s[i] = "2" => s[i + 1] = "0")
  /\ \A k \in {i + 2, i + 3, i + 5, i + 6, i + 7, i + 8} : IsDigit(s[k])
  /\ s[i + 4] \in {"-", EnDash}

HasLegacyMarker ==
  Contains(<<"z","z","L","E","G","A","C","Y">>, PathStr(path, os_sep)) \/ Contains(<<"l","e","g","a","c","y">>, RelLower)

\* C9 as stated: year is legacy exactly when the path holds a legacy marker or
\* holds a year range anywhere, whatever precedes or follows it.
C9_LegacyIffRangeAnywhere ==
  Parsed =>
     /\ Info.year \in {"legacy", "current"}
     /\ Info.year = "legacy" <=>
          (HasLegacyMarker \/ \E i \in 1..Len(RelLower) : RangeTextAt(RelLower, i))

\* a letter, a digit or an underscore at position i of s
WordCharAt(s, i) == i \in 1..Len(s) /\ IsWord(s[i])

\* C9 amended: year is legacy exactly when the path holds a legacy marker or
\* holds a year range that is neither preceded nor followed by a letter, a
\* digit or an underscore; otherwise it is current.
C9_LegacyIffDelimitedRange ==
  Parsed =>
     /\ Info.year \in {"legacy", "current"}
     /\ Info.year = "legacy" <=>
          (HasLegacyMarker \/
           \E i \in 1..Len(RelLower) :
              /\ RangeTextAt(RelLower, i)
              /\ ~WordCharAt(RelLower, i - 1)
              /\ ~WordCharAt(RelLower, i + 9))

C9_Witness ==
  /\ Parsed /\ ~HasLegacyMarker
  /\ Info.year = "legacy"
  /\ \E i \in 2..Len(RelLower) : RangeTextAt(RelLower, i) /\ RelLower[i + 4] = EnDash

\* C10: family is the first segment of a file inside a directory and "Other"
\* for a file at the repository root, never the file's own name.
C10_FamilyOrOther ==
  Parsed =>
     /\ Len(path) > 1 => Info.family = path[1]
     /\ Len(path) = 1 => Info.family = <<"O","t","h","e","r">>
     /\ Len(path) = 1 => Info.family # Info.filename

(***************************************************************************)
(* Specification of the scanner: one call of scan_logos                    *)
(***************************************************************************)

MaxFiles == 4

ScanUniverse ==
  { <<<<"a","\\","b",".","p","n","g">>>>, <<<<"a">>, <<"b",".","p","n","g">>>>, <<<<"a">>, <<"n","o","t","e","s",".","t","x","t">>>>,
    <<<<"d","o","c","s">>, <<"x",".","p","n","g">>>>, <<<<"a">>, <<"d","o","c","s">>, <<"y",".","s","v","g">>>>, <<<<"c",".","P","N","G">>>>,
    <<<<"a">>, <<"b">>, <<"d",".","j","p","g">>>>, <<<<"R","E","A","D","M","E",".","m","d">>>> }

InitScan ==
  /\ pc = "scan"
  /\ os_sep \in {"/", "\\"}
  /\ tree \in Trees(ScanUniverse, MaxFiles)
  /\ \A f \in tree : ValidParts(f, os_sep)
  /\ pending = << <<>> >>
  /\ logos = <<>>
  /\ logo_id = 0
  /\ NoParse
  /\ NoHistory

NextScan == WalkDir \/ ScanReturn

SpecScan == InitScan /\ [][NextScan]_vars

(***************************************************************************)
(* Properties of the scanner                                               *)
(***************************************************************************)

Scanned == pc = "recent"

\* the ids are pairwise distinct and are exactly 0 .. n-1
IdsDense ==
  /\ \A i, j \in DOMAIN logos : i # j => logos[i].id # logos[j].id
  /\ { logos[i].id : i \in DOMAIN logos } = 0..(Len(logos) - 1)

\* no two records have the same path
PathsDistinct ==
  \A i, j \in DOMAIN logos : i # j => logos[i].path # logos[j].path

\* C6: for every directory tree the records scan_logos returns have ids that
\* are pairwise distinct and exactly 0 .. n-1, and pairwise distinct paths.
C6_IdsDenseAndPathsUnique == Scanned => (IdsDense /\ PathsDistinct)

\* the part of C6 the code keeps: dense ids on every tree, and distinct paths
\* on every tree without a backslash in a file name
ScanIdsDense == Scanned => IdsDense

ScanPathsDistinctWithoutBackslash ==
  (Scanned /\ \A f \in tree : ValidParts(f, "\\")) => PathsDistinct

(***************************************************************************)
(* Specification of the serializer: one call of generate_logo_data_js on   *)
(* the records of a set of files, discovered in any order                  *)
(***************************************************************************)

MaxSortFiles == 3

SortUniverse ==
  { <<<<"A","z","u","r","e">>, <<"b",".","p","n","g">>>>, <<<<"A","z","u","r","e">>, <<"b","_","6","4","x","6","4",".","p","n","g">>>>, <<<<"A","z","u","r","e">>, <<"B",".","s","v","g">>>>,
    <<<<"a","z","u","r","e">>, <<"a",".","p","n","g">>>>,
    <<<<"a">>, <<"b","\\","c">>, <<"d",".","p","n","g">>>>, <<<<"a">>, <<"b">>, <<"c">>, <<"d",".","p","n","g">>>> }

\* the record of each file of the universe, computed once
SortRecords == [ f \in SortUniverse |-> parse_logo_path(f, "/")[1] ]

\* the list scan_logos returns when it meets the files in this order
Discovered(order) ==
  [ i \in DOMAIN order |-> SortRecords[order[i]] @@ [id |-> i - 1] ]

InitSort ==
  /\ pc = "generate"
  /\ os_sep = "/"
  /\ tree \in Trees(SortUniverse, MaxSortFiles)
  /\ pending = <<>>
  /\ logos \in { Discovered(order) : order \in Orders(tree) }
  /\ logo_id = Len(logos)
  /\ NoParse
  /\ NoHistory

NextSort == Generate

SpecSort == InitSort /\ [][NextSort]_vars

(***************************************************************************)
(* Properties of the serializer                                            *)
(***************************************************************************)

Written == pc = "done" /\ artifact # None

LogoData == artifact[1][1].value

PathsOf(l) == [ i \in DOMAIN l |-> l[i].path ]

\* (family, name, path) of a is not greater than that of b
KeyNotGreater(a, b) ==
  LET ka == <<a.family, a.name, a.path>>
      kb == <<b.family, b.name, b.path>>
  IN  ka = kb \/ TupleLess(ka, kb)

\* C5: the emitted logo list is ascending by (family, name, path), and its
\* order of paths is the same for every order in which the same files were
\* discovered.
C5_SortedAndOrderIndependent ==
  Written =>
     /\ \A i \in 1..(Len(LogoData) - 1) : KeyNotGreater(LogoData[i], LogoData[i + 1])
     /\ { LogoData[i] : i \in DOMAIN LogoData } = { logos[i] : i \in DOMAIN logos }
     /\ \A order \in Orders(tree) :
           PathsOf(generate_logo_data_js(Discovered(order), <<>>, <<>>)[1].value)
             = PathsOf(LogoData)

C5_Witness ==
  /\ Written
  /\ Len(LogoData) = 3
  /\ PathsOf(LogoData) # PathsOf(logos)
  /\ LogoData[1].family = LogoData[2].family
  /\ LogoData[1].name = LogoData[2].name

(***************************************************************************)
(* Specification of the recent additions: one call of get_recent_additions *)
(***************************************************************************)

MaxCommits == 2

MaxLimit == 2

Dates ==
  { DateText(day, hour, offset) :
      day \in { <<"1","4">>, <<"1","5">> }, hour \in { <<"0","9">>, <<"1","0">> },
      offset \in { <<"+","0","0","0","0">>, <<"+","0","9","0","0">>, <<"-","0","5","0","0">> } }

AddedFiles ==
  { << <<"a","/","x",".","p","n","g">> >>, << <<"a","/","y",".","s","v","g">>, <<"b","/","g","o","n","e",".","p","n","g">> >>, << <<"d","o","c","s","/","z",".","p","n","g">>, <<"a","/","n",".","t","x","t">> >> }

RecentLogs ==
  { LogLines(commits, 1) :
      commits \in UNION { [1..k -> Dates \X AddedFiles] : k \in 0..MaxCommits } }

DiskFiles == { <<"a","/","x",".","p","n","g">>, <<"a","/","y",".","s","v","g">>, <<"d","o","c","s","/","z",".","p","n","g">>, <<"a","/","n",".","t","x","t">> }

InitRecent ==
  /\ pc = "recent"
  /\ os_sep = "/"
  /\ git_log \in { [kind |-> "raises"], [kind |-> "fails"] }
                  \cup { [kind |-> "ok", stdout |-> l] : l \in RecentLogs }
  /\ on_disk = DiskFiles
  /\ limit \in 1..MaxLimit
  /\ recent_additions = <<>>
  /\ remote = None /\ api = None /\ author_log = None /\ contributors = <<>>
  /\ artifact = None
  /\ NoParse
  /\ NoScan

NextRecent == GetRecentAdditions

SpecRecent == InitRecent /\ [][NextRecent]_vars

(***************************************************************************)
(* Properties of the recent additions                                      *)
(***************************************************************************)

DigitValue(c) == Ord[c] - Ord["0"]

TwoDigits(s, i) == 10 * DigitValue(s[i]) + DigitValue(s[i + 1])

\* the instant a %ai date of January 2024 names, in minutes of UTC: the local
\* time less the offset
Instant(date) ==
  LET local  == (TwoDigits(date, 9) * 24 + TwoDigits(date, 12)) * 60 + TwoDigits(date, 15)
      offset == TwoDigits(date, 22) * 60 + TwoDigits(date, 24)
  IN  IF date[21] = "-" THEN local + offset ELSE local - offset

RecentReturned == pc = "contributors"

\* C4: the returned list has at most limit entries and is newest first by
\* commit instant, whatever offsets from UTC the recorded dates carry.
C4_NewestFirstByInstant ==
  RecentReturned =>
     /\ Len(recent_additions) <= limit
     /\ \A i \in 1..(Len(recent_additions) - 1) :
           Instant(recent_additions[i].date) >= Instant(recent_additions[i + 1].date)

\* the part of C4 the code keeps: at most limit entries, descending by the text
\* of the date, and so newest first among dates that carry one offset
RecentAtMostLimit == RecentReturned => Len(recent_additions) <= limit

RecentNewestFirstSameOffset ==
  RecentReturned =>
     \A i \in 1..(Len(recent_additions) - 1) :
        From(recent_additions[i].date, 21) = From(recent_additions[i + 1].date, 21)
          => Instant(recent_additions[i].date) >= Instant(recent_additions[i + 1].date)

(***************************************************************************)
(* Specification of the contributors: one call of get_contributors         *)
(***************************************************************************)

MaxLines == 3

AuthorLines ==
  { <<"A","l","|","a","l","@","x",".","i","o">>,
    <<"A","l","|","a","l","@","u","s","e","r","s",".","n","o","r","e","p","l","y",".","g","i","t","h","u","b",".","c","o","m">>,
    <<"A","L","|","1","2","+","a","l","@","u","s","e","r","s",".","n","o","r","e","p","l","y",".","g","i","t","h","u","b",".","c","o","m">>,
    <<"A","l","|","a","l","l","y","@","u","s","e","r","s",".","n","o","r","e","p","l","y",".","g","i","t","h","u","b",".","c","o","m">>,
    <<"B","o","|","b","o","@","x",".","i","o">>,
    <<"c","i","-","b","o","t","|","c","i","@","x",".","i","o">> }

AuthorLogs ==
  { [kind |-> "raises"], [kind |-> "fails"] }
  \cup { [kind |-> "ok", stdout |-> l] :
           l \in UNION { [1..k -> AuthorLines] : k \in 0..MaxLines } }

InitContributors ==
  /\ pc = "contributors"
  /\ os_sep = "/"
  /\ remote \in Remotes
  /\ api \in Apis
  /\ author_log \in AuthorLogs
  /\ contributors = <<>>
  /\ git_log = None /\ on_disk = {} /\ limit = 0 /\ recent_additions = <<>>
  /\ artifact = None
  /\ NoParse
  /\ NoScan

NextContributors == GetContributors

SpecContributors == InitContributors /\ [][NextContributors]_vars

(***************************************************************************)
(* Properties of the contributors                                          *)
(***************************************************************************)

ContributorsReturned == pc = "generate"

RemoteParsed == remote.kind = "ok" /\ ParseRemote(Strip(remote.stdout)) # None

RemoteUnparsable == remote.kind = "ok" /\ ParseRemote(Strip(remote.stdout)) = None

ApiUnreachable == RemoteParsed /\ api.kind = "urlerror"

ApiRaises == RemoteParsed /\ api.kind = "raises"

\* the list came from get_contributors_from_git reading a log
FallbackRead ==
  /\ ContributorsReturned
  /\ remote.kind = "raises" \/ ApiUnreachable \/ ApiRaises
  /\ author_log.kind = "ok"

\* the (name, email) pairs of the log's lines that are not a bot's
Authors ==
  { a \in { [name  |-> Split(Strip(l), "|")[1], email |-> Split(Strip(l), "|")[2]] :
              l \in { m \in Range(author_log.stdout) : Contains(<<"|">>, m) } } :
      ~IsBot(a.name, a.email) }

Resolved(a) == Truthy(GithubUsername(a.email))

EntriesNamed(key) ==
  { i \in DOMAIN contributors : LowerStr(contributors[i].name) = key }

\* C1: a display name (compared without case) that occurs on a line with a
\* derivable GitHub username and on a line without one, in any order, has
\* exactly one entry in the returned list, and that entry carries the username.
C1_OneResolvedEntryPerName ==
  FallbackRead =>
     \A a, b \in Authors :
        (LowerStr(a.name) = LowerStr(b.name) /\ Resolved(a) /\ ~Resolved(b)) =>
           /\ Cardinality(EntriesNamed(LowerStr(a.name))) = 1
           /\ \A i \in EntriesNamed(LowerStr(a.name)) :
                 contributors[i].github_username # None

\* C2 as stated: the fallback's result is returned in each of the three
\* failure cases: the API is unreachable, the API call or its decoding raises,
\* the remote URL cannot be parsed into owner/repo.
C2_FallbackInThreeCases ==
  (ContributorsReturned /\ (ApiUnreachable \/ ApiRaises \/ RemoteUnparsable)) =>
     contributors = get_contributors_from_git(author_log).value

\* C2 amended: the fallback's result is returned when the API is unreachable
\* and when the API call or its decoding (or the lookup of the remote URL)
\* raises; when the remote URL cannot be parsed into owner/repo, or its lookup
\* exits non-zero, the empty list is returned and the fallback is not used.
C2_FallbackOnErrorsOnly ==
  ContributorsReturned =>
     /\ (ApiUnreachable \/ ApiRaises \/ remote.kind = "raises") =>
           contributors = get_contributors_from_git(author_log).value
     /\ (RemoteUnparsable \/ remote.kind = "fails") => contributors = <<>>

C2_Witness ==
  /\ ContributorsReturned
  /\ ApiUnreachable
  /\ contributors # <<>>
  /\ \E i \in DOMAIN contributors : contributors[i].github_username = None

(***************************************************************************)
(* Specification of the orchestrator: one run of main                      *)
(***************************************************************************)

InitMain ==
  /\ pc = "scan"
  /\ os_sep = "/"
  /\ tree \in MainTrees
  /\ pending = << <<>> >>
  /\ logos = <<>>
  /\ logo_id = 0
  /\ git_log \in MainGitLogs
  /\ on_disk = { PathStr(f, os_sep) : f \in tree }
  /\ limit = RecentLimit
  /\ recent_additions = <<>>
  /\ remote \in Remotes
  /\ api \in Apis
  /\ author_log \in MainAuthorLogs
  /\ contributors = <<>>
  /\ artifact = None
  /\ NoParse

NextMain ==
  \/ WalkDir
  \/ ScanReturn
  \/ GetRecentAdditions
  \/ GetContributors
  \/ Generate

\* main is one sequential thread: a step that can be taken is taken
SpecMain == InitMain /\ [][NextMain]_vars /\ WF_vars(NextMain)

(***************************************************************************)
(* Properties of the orchestrator                                          *)
(***************************************************************************)

BlockNames == [ i \in DOMAIN artifact[1] |-> artifact[1][i].block ]

\* the written file holds the three blocks, and a failed sub-step's block is
\* the empty list
ArtifactComplete ==
  /\ Written
  /\ BlockNames = <<"logoData", "recentAdditions", "contributors">>
  /\ { artifact[1][1].value[i] : i \in DOMAIN artifact[1][1].value }
       = { logos[i] : i \in DOMAIN logos }
  /\ git_log.kind # "ok" => artifact[1][2].value = <<>>
  /\ (remote.kind = "fails" \/ RemoteUnparsable) => artifact[1][3].value = <<>>
  /\ ((remote.kind = "raises" \/ ApiUnreachable \/ ApiRaises) /\ author_log.kind # "ok")
        => artifact[1][3].value = <<>>

\* C3: whatever the history and contributor sub-steps do, once scan_logos has
\* completed main reaches generate_logo_data_js and writes the three blocks, a
\* failed sub-step contributing an empty list.
C3_AlwaysWritesArtifact == (pc = "recent") ~> ArtifactComplete

C3_Witness ==
  /\ ArtifactComplete
  /\ Len(logos) > 0
  /\ git_log.kind = "raises"
  /\ ApiUnreachable
  /\ author_log.kind = "raises"

=============================================================================
